---- MODULE Spec2Model ----
(***************************************************************************)
(* Model of nitro's build orchestration (src/build.ts): prepare, build,   *)
(* the one-shot pipeline _build, the live rebuild coordinator _watch with *)
(* its debounced reload, session and close hook, and writeTypes.           *)
(***************************************************************************)
EXTENDS Integers, Sequences, FiniteSets, TLC

(***************************************************************************)
(* Bounds                                                                  *)
(***************************************************************************)
MaxPathLen == 5

\* Filesystem-watcher events delivered in one run of the coordinator.
MaxFsEvents == 2

\* Bundler-watch session events delivered in one run of the coordinator.
MaxSessionEvents == 2

\* Length of the scanned handler list; the configured list has one less.
MaxHandlers == 2

\* Calls of writeTypes on one configuration.
MaxTypeWrites == 2

\* Characters of the modelled paths: the separator and one name character.
Chars == {"/", "a"}

\* Errors a collaborator (scanner, bundler, file write) may reject with.
Errors == {"E1", "E2"}

NoError == "none"

(***************************************************************************)
(* Paths: normalised absolute paths, as sequences of characters            *)
(***************************************************************************)
IsNormalized(s) ==
    /\ Len(s) >= 1
    /\ s[1] = "/"
    /\ \A i \in 1..(Len(s) - 1) : ~(s[i] = "/" /\ s[i + 1] = "/")
    /\ (Len(s) > 1 => s[Len(s)] # "/")

Paths == {s \in UNION {[1..n -> Chars] : n \in 1..MaxPathLen} : IsNormalized(s)}

\* String.prototype.startsWith: a character-wise prefix test.
StartsWith(s, prefix) ==
    /\ Len(prefix) <= Len(s)
    /\ SubSeq(s, 1, Len(prefix)) = prefix

\* p is located inside directory d (or is d itself): d's segments are a
\* prefix of p's segments.
IsNested(p, d) ==
    \/ p = d
    \/ d = <<"/">>
    \/ /\ Len(p) > Len(d)
       /\ SubSeq(p, 1, Len(d)) = d
       /\ p[Len(d) + 1] = "/"

VARIABLES
    op,             \* the entry point being run
    outputDir,      \* nitro.options.output.dir
    publicDir,      \* nitro.options.output.publicDir
    serverDir,      \* nitro.options.output.serverDir
    ppc,            \* position of prepare
    cleared,        \* the directories emptied so far, in order
    logLevel,       \* nitro.options.logLevel
    commands,       \* which of the preview / deploy command templates are set
    bpc,            \* position of _build
    rollupError,    \* the error the bundler's build rejected with
    raised,         \* the error the entry point rejected with
    bundleWritten,  \* build.write has run
    manifest,       \* nitro.json has been written
    treePrinted,    \* printFSTree has run
    steps,          \* the steps of _build completed so far, in order
    log,            \* logger calls, in order
    compiled,       \* number of 'nitro:compiled' hook calls
    devReload,      \* number of 'nitro:dev:reload' hook calls
    hookLog,        \* the hooks called, in order
    compiledRunning, \* 'nitro:compiled' calls whose handlers have not completed
    wpc,            \* position of _watch
    rollupWatcher,  \* the handle _watch's variable refers to, 0 when undefined
    open,           \* the bundler-watch handles started and not closed
    nHandles,       \* number of bundler-watch sessions started so far
    runs,           \* position of every execution of the reload body
    timeout,        \* debounce: the timer is armed
    currentPromise, \* debounce: an execution is registered as in progress
    trailingArgs,   \* debounce: a trailing call is recorded
    windowCalls,    \* calls received since the timer was armed
    runCalls,       \* calls received by the execution in progress
    lastStart,      \* how the latest execution started, and for how many calls
    start,          \* the sessions whose 'start' timestamp is set
    errored,        \* the sessions that have emitted an ERROR event
    nSess,          \* number of session events delivered
    nEnd,           \* number of those that were END events
    fsWatcher,      \* reloadWacher: "none", "open" or "closed"
    nFs,            \* number of filesystem-watcher events delivered
    nOther,         \* number of those that were not structural events
    closeState,     \* the 'close' hook: unregistered, registered, done, threw
    scannedHandlers, \* nitro.scannedHandlers
    handlers,       \* nitro.options.handlers
    unimport,       \* the text nitro.unimport generates, NoUnimport without it
    routeTypes,     \* the route map built by the latest writeTypes
    typesFile,      \* the lines of types/nitro.d.ts, NoFile before a write
    prevFile,       \* the lines of types/nitro.d.ts before the latest write
    nWrites,        \* number of writeTypes calls completed
    tpc,            \* position of build
    vfs,            \* nitro.vfs[htmlTemplate.src], Missing when undefined
    disk,           \* the file at htmlTemplate.src, Missing when unreadable
    dev,            \* nitro.options.dev
    htmlTemplate,   \* the record passed to the 'nitro:document' handlers
    written,        \* the module file build has written, NoModule before
    called          \* the function build dispatched to, "none" before

prepVars == <<outputDir, publicDir, serverDir, ppc, cleared>>
buildVars == <<logLevel, commands, bpc, rollupError, bundleWritten, manifest, treePrinted,
               steps>>
sharedVars == <<raised, log, compiled, devReload>>
hookVars == <<hookLog, compiledRunning>>

debVars == <<timeout, currentPromise, trailingArgs, windowCalls, runCalls, lastStart>>
bodyVars == <<runs, rollupWatcher, open, nHandles>>
sessVars == <<start, errored, nSess, nEnd>>
fsVars == <<fsWatcher, nFs, nOther>>
watchVars == <<wpc, debVars, bodyVars, sessVars, fsVars, closeState>>

typesVars == <<scannedHandlers, handlers, unimport, routeTypes, typesFile,
               prevFile, nWrites>>
tplVars == <<tpc, vfs, disk, dev, htmlTemplate, written, called>>
extraVars == <<typesVars, hookVars, tplVars>>

vars == <<op, prepVars, buildVars, sharedVars, watchVars, extraVars>>

(***************************************************************************)
(* prepare                                                                 *)
(***************************************************************************)
\* cleanupDir(dir): fse.emptyDir(dir)
cleanupDir(dir) == cleared' = Append(cleared, dir)

\* ClearsPublic with the arguments of startsWith exchanged.
ClearsPublicSwapped == ~StartsWith(outputDir, publicDir)

\* The guards of the two conditional clears.
ClearsPublic == ~StartsWith(publicDir, outputDir)

ClearsServer == ~StartsWith(serverDir, outputDir)

PrepareRoot ==
    /\ op = "prepare" /\ ppc = "root"
    /\ cleanupDir(outputDir)
    /\ ppc' = "public"
    /\ UNCHANGED <<extraVars, op, outputDir, publicDir, serverDir, buildVars, sharedVars, watchVars>>

PreparePublic ==
    /\ op = "prepare" /\ ppc = "public"
    /\ IF ClearsPublic THEN cleanupDir(publicDir) ELSE UNCHANGED cleared
    /\ ppc' = "server"
    /\ UNCHANGED <<extraVars, op, outputDir, publicDir, serverDir, buildVars, sharedVars, watchVars>>

PrepareServer ==
    /\ op = "prepare" /\ ppc = "server"
    /\ IF ClearsServer THEN cleanupDir(serverDir) ELSE UNCHANGED cleared
    /\ ppc' = "done"
    /\ UNCHANGED <<extraVars, op, outputDir, publicDir, serverDir, buildVars, sharedVars, watchVars>>

(***************************************************************************)
(* _build: the one-shot pipeline                                           *)
(***************************************************************************)
\* nitro.options.logLevel > 1 prints the output tree.
TreeLogLevel == 1

MaxLogLevel == 3

\* scanHandlers(nitro)
BuildScan ==
    /\ op = "_build" /\ bpc = "scan"
    /\ \/ /\ bpc' = "writeTypes"
          /\ steps' = Append(steps, "scan")
          /\ UNCHANGED raised
       \/ \E e \in Errors : raised' = e /\ bpc' = "rejected" /\ UNCHANGED steps
    /\ UNCHANGED <<extraVars, watchVars, op, prepVars, logLevel, commands, rollupError, bundleWritten,
                   manifest, treePrinted, log, compiled, devReload>>

\* writeTypes(nitro), then logger.start('Building server...') and the call
\* of rollup.rollup.
BuildWriteTypes ==
    /\ op = "_build" /\ bpc = "writeTypes"
    /\ \/ /\ bpc' = "rollup"
          /\ steps' = Append(steps, "writeTypes")
          /\ log' = Append(log, <<"start", "Building server...">>)
          /\ UNCHANGED raised
       \/ \E e \in Errors :
            raised' = e /\ bpc' = "rejected" /\ UNCHANGED <<log, steps>>
    /\ UNCHANGED <<extraVars, watchVars, op, prepVars, logLevel, commands, rollupError, bundleWritten,
                   manifest, treePrinted, compiled, devReload>>

\* RollupCatch without the rethrow: the pipeline goes on after the log.
RollupCatchSwallow(error) ==
    /\ log' = Append(log, <<"error", "Rollup error: ", error>>)
    /\ bpc' = "write"
    /\ UNCHANGED <<raised, steps>>

\* The .catch handler of rollup.rollup: log with the prefix, rethrow.
RollupCatch(error) ==
    /\ log' = Append(log, <<"error", "Rollup error: ", error>>)
    /\ raised' = error
    /\ bpc' = "rejected"
    /\ UNCHANGED steps

\* rollup.rollup(rollupConfig) settles.
BuildRollup ==
    /\ op = "_build" /\ bpc = "rollup"
    /\ \/ /\ bpc' = "write"
          /\ steps' = Append(steps, "rollup")
          /\ log' = Append(log, <<"start", "Writing server bundle...">>)
          /\ UNCHANGED <<raised, rollupError>>
       \/ \E e \in Errors :
            /\ rollupError' = e
            /\ RollupCatch(e)
    /\ UNCHANGED <<extraVars, watchVars, op, prepVars, logLevel, commands, bundleWritten,
                   manifest, treePrinted, compiled, devReload>>

\* BuildWrite that goes on to the manifest without having written the
\* bundle.
BuildWriteSkipped ==
    /\ op = "_build" /\ bpc = "write"
    /\ bpc' = "manifest"
    /\ UNCHANGED <<extraVars, watchVars, op, prepVars, logLevel, commands, rollupError,
                   bundleWritten, manifest, treePrinted, steps, sharedVars>>

\* build.write(rollupConfig.output) settles.
BuildWrite ==
    /\ op = "_build" /\ bpc = "write"
    /\ \/ /\ bundleWritten' = TRUE
          /\ steps' = Append(steps, "write")
          /\ bpc' = "manifest"
          /\ UNCHANGED raised
       \/ \E e \in Errors :
            raised' = e /\ bpc' = "rejected" /\ UNCHANGED <<bundleWritten, steps>>
    /\ UNCHANGED <<extraVars, watchVars, op, prepVars, logLevel, commands, rollupError,
                   manifest, treePrinted, log, compiled, devReload>>

\* nitro.hooks.callHook('nitro:compiled', nitro) is called: its handlers
\* start running.
CallCompiled ==
    /\ compiled' = compiled + 1
    /\ hookLog' = Append(hookLog, "nitro:compiled")
    /\ compiledRunning' = compiledRunning + 1

\* writeFile(nitroConfigPath, ...) settles; then logger.success and, above
\* the log level threshold, the call of printFSTree, otherwise the call of
\* the 'nitro:compiled' hook.
BuildManifest ==
    /\ op = "_build" /\ bpc = "manifest"
    /\ \/ /\ manifest' = TRUE
          /\ log' = Append(log, <<"success", "Server built">>)
          /\ UNCHANGED raised
          /\ IF logLevel > TreeLogLevel
               THEN /\ bpc' = "tree"
                    /\ steps' = Append(steps, "manifest")
                    /\ UNCHANGED <<compiled, hookVars>>
               ELSE /\ bpc' = "compiled"
                    /\ steps' = steps \o <<"manifest", "compiled">>
                    /\ CallCompiled
       \/ \E e \in Errors :
            /\ raised' = e /\ bpc' = "rejected"
            /\ UNCHANGED <<manifest, log, steps, compiled, hookVars>>
    /\ UNCHANGED <<tplVars, typesVars, watchVars, op, prepVars, logLevel, commands, rollupError,
                   bundleWritten, treePrinted, devReload>>

\* printFSTree(serverDir) settles; then the call of the 'nitro:compiled'
\* hook.
BuildTree ==
    /\ op = "_build" /\ bpc = "tree"
    /\ treePrinted' = TRUE
    /\ bpc' = "compiled"
    /\ steps' = Append(steps, "compiled")
    /\ CallCompiled
    /\ UNCHANGED <<tplVars, typesVars, watchVars, op, prepVars, logLevel, commands, rollupError,
                   bundleWritten, manifest, raised, log, devReload>>

\* The hints logged after 'nitro:compiled'.
Hints ==
    (IF commands.preview THEN <<(<<"info", "preview">>)>> ELSE <<>>)
    \o (IF commands.deploy THEN <<(<<"info", "deploy">>)>> ELSE <<>>)

\* The awaited callHook('nitro:compiled') settles, once its handlers have
\* completed; hints; return.
BuildCompiled ==
    /\ op = "_build" /\ bpc = "compiled"
    /\ compiledRunning = 0
    /\ log' = log \o Hints
    /\ bpc' = "returned"
    /\ UNCHANGED <<extraVars, watchVars, op, prepVars, logLevel, commands, rollupError,
                   bundleWritten, manifest, treePrinted, steps, raised, compiled,
                   devReload>>

\* The handlers of one 'nitro:compiled' call complete.
CompiledHandlersDone ==
    /\ compiledRunning > 0
    /\ compiledRunning' = compiledRunning - 1
    /\ UNCHANGED <<tplVars, typesVars, hookLog, op, prepVars, buildVars, sharedVars, watchVars>>

(***************************************************************************)
(* The debounced reload of _watch                                          *)
(*                                                                         *)
(* reload = debounce(body) with the defaults of perfect-debounce: a timer  *)
(* that every call outside an execution re-arms, one execution when the    *)
(* timer fires, and a call during an execution recorded as one trailing    *)
(* call that is applied when the execution settles.                        *)
(***************************************************************************)
InProgress == {i \in 1..Len(runs) : runs[i] \in {"close", "scan", "writeTypes"}}

\* BodyStart without the close of the previous handle.
BodyStartNoClose(rs, how) ==
    /\ runs' = Append(rs, "scan")
    /\ lastStart' = how
    /\ open' = open
    /\ currentPromise' = TRUE
    /\ runCalls' = 0

\* The body runs up to its first await: with a handle in rollupWatcher it
\* calls close() on it and awaits that, otherwise it calls scanHandlers.
\* rs is the record of the executions so far, how the origin of this one.
BodyStart(rs, how) ==
    /\ runs' = Append(rs, IF rollupWatcher # 0 THEN "close" ELSE "scan")
    /\ lastStart' = how
    /\ open' = open \ {rollupWatcher}
    /\ currentPromise' = TRUE
    /\ runCalls' = 0

\* The function debounce returns, called: during an execution it records
\* the trailing call, otherwise it (re-)arms the timer.
ReloadCall ==
    IF currentPromise
      THEN /\ trailingArgs' = TRUE
           /\ runCalls' = runCalls + 1
           /\ UNCHANGED <<timeout, windowCalls>>
      ELSE /\ timeout' = TRUE
           /\ windowCalls' = windowCalls + 1
           /\ UNCHANGED <<trailingArgs, runCalls>>

\* TimerFire without the clearing of the timers of the earlier calls of the
\* burst: every call's timer fires on its own.
TimerFireNoClear ==
    /\ op = "_watch" /\ timeout
    /\ timeout' = (windowCalls > 1)
    /\ windowCalls' = windowCalls - 1
    /\ BodyStart(runs, <<"timer", 1>>)
    /\ UNCHANGED <<extraVars, op, prepVars, buildVars, sharedVars, wpc, trailingArgs,
                   rollupWatcher, nHandles, sessVars, fsVars, closeState>>

\* The timer fires: the body is applied once.
TimerFire ==
    /\ op = "_watch" /\ timeout
    /\ timeout' = FALSE
    /\ windowCalls' = 0
    /\ BodyStart(runs, <<"timer", windowCalls>>)
    /\ UNCHANGED <<extraVars, op, prepVars, buildVars, sharedVars, wpc, trailingArgs,
                   rollupWatcher, nHandles, sessVars, fsVars, closeState>>

\* Settle without the trailing call (debounce with trailing: false).
SettleNoTrailing(i, result, e) ==
    /\ runs' = [runs EXCEPT ![i] = result]
    /\ currentPromise' = FALSE
    /\ runCalls' = 0
    /\ trailingArgs' = FALSE
    /\ UNCHANGED <<open, lastStart>>
    /\ IF i = 1 /\ wpc = "awaitReload"
         THEN /\ wpc' = (IF result = "done" THEN "returned" ELSE "rejected")
              /\ raised' = e
         ELSE UNCHANGED <<wpc, raised>>

\* Settle with the clearing and the trailing call chained by then instead
\* of finally: a rejected execution stays registered as in progress.
SettleThenOnly(i, result, e) ==
    /\ IF result = "failed"
         THEN /\ runs' = [runs EXCEPT ![i] = result]
              /\ UNCHANGED <<currentPromise, runCalls, open, trailingArgs, lastStart>>
         ELSE IF trailingArgs /\ ~timeout
         THEN /\ BodyStart([runs EXCEPT ![i] = result], <<"trailing", runCalls>>)
              /\ trailingArgs' = FALSE
         ELSE /\ runs' = [runs EXCEPT ![i] = result]
              /\ currentPromise' = FALSE
              /\ runCalls' = 0
              /\ UNCHANGED <<open, trailingArgs, lastStart>>
    /\ IF i = 1 /\ wpc = "awaitReload"
         THEN /\ wpc' = (IF result = "done" THEN "returned" ELSE "rejected")
              /\ raised' = e
         ELSE UNCHANGED <<wpc, raised>>

\* Execution i settles with result ("done" or "failed", error e): the
\* finally callback clears currentPromise and applies a recorded trailing
\* call; the promise of the startup call settles with the first execution.
Settle(i, result, e) ==
    /\ IF trailingArgs /\ ~timeout
         THEN /\ BodyStart([runs EXCEPT ![i] = result], <<"trailing", runCalls>>)
              /\ trailingArgs' = FALSE
         ELSE /\ runs' = [runs EXCEPT ![i] = result]
              /\ currentPromise' = FALSE
              /\ runCalls' = 0
              /\ UNCHANGED <<open, trailingArgs, lastStart>>
    /\ IF i = 1 /\ wpc = "awaitReload"
         THEN /\ wpc' = (IF result = "done" THEN "returned" ELSE "rejected")
              /\ raised' = e
         ELSE UNCHANGED <<wpc, raised>>

\* ReloadClosed starting the new session before the scan.
ReloadClosedStartsSession(i) ==
    /\ op = "_watch" /\ i \in 1..Len(runs) /\ runs[i] = "close"
    /\ runs' = [runs EXCEPT ![i] = "scan"]
    /\ nHandles' = nHandles + 1
    /\ rollupWatcher' = nHandles + 1
    /\ open' = open \cup {nHandles + 1}
    /\ UNCHANGED <<extraVars, op, prepVars, buildVars, sharedVars, wpc, debVars,
                   sessVars, fsVars, closeState>>

\* await rollupWatcher.close() resumes; scanHandlers is called.
ReloadClosed(i) ==
    /\ op = "_watch" /\ i \in 1..Len(runs) /\ runs[i] = "close"
    /\ runs' = [runs EXCEPT ![i] = "scan"]
    /\ UNCHANGED <<extraVars, op, prepVars, buildVars, sharedVars, wpc, debVars,
                   rollupWatcher, open, nHandles, sessVars, fsVars, closeState>>

\* startRollupWatcher(nitro): rollup.watch opens a new session.
startRollupWatcher ==
    /\ nHandles' = nHandles + 1
    /\ rollupWatcher' = nHandles + 1
    /\ open' = open \cup {nHandles + 1}

\* await scanHandlers(nitro) settles: on success the new session is started
\* and writeTypes is called, on failure the body rejects.
ReloadScanned(i) ==
    /\ op = "_watch" /\ i \in 1..Len(runs) /\ runs[i] = "scan"
    /\ \/ /\ startRollupWatcher
          /\ runs' = [runs EXCEPT ![i] = "writeTypes"]
          /\ UNCHANGED <<debVars, wpc, raised>>
       \/ \E e \in Errors :
            /\ Settle(i, "failed", e)
            /\ UNCHANGED <<timeout, windowCalls, rollupWatcher, nHandles>>
    /\ UNCHANGED <<extraVars, op, prepVars, buildVars, log, compiled, devReload,
                   sessVars, fsVars, closeState>>

\* await writeTypes(nitro) settles: the body returns or rejects.
ReloadTypesWritten(i) ==
    /\ op = "_watch" /\ i \in 1..Len(runs) /\ runs[i] = "writeTypes"
    /\ \/ Settle(i, "done", NoError)
       \/ \E e \in Errors : Settle(i, "failed", e)
    /\ UNCHANGED <<extraVars, op, prepVars, buildVars, log, compiled, devReload,
                   timeout, windowCalls, rollupWatcher, nHandles,
                   sessVars, fsVars, closeState>>

(***************************************************************************)
(* _watch: registration, filesystem events, session events, close          *)
(***************************************************************************)
\* The structural events: an entry or a directory added or removed.
StructuralEvents == {"add", "addDir", "unlink", "unlinkDir"}

watchReloadEventsWithChange == {"add", "addDir", "change", "unlink", "unlinkDir"}

watchReloadEvents == {"add", "addDir", "unlink", "unlinkDir"}

\* The event names chokidar passes to an 'all' listener.
FsEventNames == {"add", "addDir", "change", "unlink", "unlinkDir"}

SessionEventCodes == {"START", "BUNDLE_START", "END", "ERROR"}

\* WatchStart without the startup call of reload.
WatchStartNoReload ==
    /\ op = "_watch" /\ wpc = "start"
    /\ fsWatcher' = "open"
    /\ closeState' = "registered"
    /\ wpc' = "awaitReload"
    /\ UNCHANGED <<extraVars, op, prepVars, buildVars, sharedVars, debVars,
                   bodyVars, sessVars, nFs, nOther>>

\* _watch up to its await: the filesystem watcher is subscribed, the close
\* hook registered and reload() called.
WatchStart ==
    /\ op = "_watch" /\ wpc = "start"
    /\ fsWatcher' = "open"
    /\ closeState' = "registered"
    /\ ReloadCall
    /\ wpc' = "awaitReload"
    /\ UNCHANGED <<extraVars, op, prepVars, buildVars, sharedVars, currentPromise, lastStart,
                   bodyVars, sessVars, nFs, nOther>>

\* FsEvent with the body called directly instead of the debounced reload.
FsEventDirect(event) ==
    /\ op = "_watch" /\ fsWatcher = "open"
    /\ nFs < MaxFsEvents
    /\ nFs' = nFs + 1
    /\ nOther' = nOther + (IF event \in StructuralEvents THEN 0 ELSE 1)
    /\ IF event \in watchReloadEvents
         THEN BodyStart(runs, <<"direct", 1>>)
         ELSE UNCHANGED <<runs, open, currentPromise, runCalls, lastStart>>
    /\ UNCHANGED <<extraVars, op, prepVars, buildVars, sharedVars, wpc, timeout,
                   trailingArgs, windowCalls, rollupWatcher, nHandles,
                   sessVars, fsWatcher, closeState>>

\* The 'all' listener of the filesystem watcher.
FsEvent(event) ==
    /\ op = "_watch" /\ fsWatcher = "open"
    /\ nFs < MaxFsEvents
    /\ nFs' = nFs + 1
    /\ nOther' = nOther + (IF event \in StructuralEvents THEN 0 ELSE 1)
    /\ IF event \in watchReloadEvents
         THEN ReloadCall
         ELSE UNCHANGED <<timeout, trailingArgs, windowCalls, runCalls>>
    /\ UNCHANGED <<extraVars, op, prepVars, buildVars, sharedVars, wpc, currentPromise,
                   lastStart, bodyVars, sessVars, fsWatcher, closeState>>

\* The cases of the session's 'event' listener.
OnStart(h) ==
    UNCHANGED <<start, log, compiled, devReload, hookVars>>

OnBundleStart(h) ==
    /\ start' = start \cup {h}
    /\ UNCHANGED <<log, compiled, devReload, hookVars>>

\* OnEnd calling 'nitro:dev:reload' before 'nitro:compiled'.
OnEndReloadFirst(h) ==
    /\ compiled' = compiled + 1
    /\ compiledRunning' = compiledRunning + 1
    /\ log' = Append(log, <<"success", "Nitro built", h \in start>>)
    /\ devReload' = devReload + 1
    /\ hookLog' = hookLog \o <<"nitro:dev:reload", "nitro:compiled">>
    /\ UNCHANGED start

OnEnd(h) ==
    /\ compiled' = compiled + 1
    /\ compiledRunning' = compiledRunning + 1
    /\ log' = Append(log, <<"success", "Nitro built", h \in start>>)
    /\ devReload' = devReload + 1
    /\ hookLog' = hookLog \o <<"nitro:compiled", "nitro:dev:reload">>
    /\ UNCHANGED start

\* OnError falling into the handling of END.
OnErrorFiresHooks(h) ==
    /\ log' = Append(log, <<"error", "Rollup error: ">>)
    /\ compiled' = compiled + 1
    /\ compiledRunning' = compiledRunning + 1
    /\ devReload' = devReload + 1
    /\ hookLog' = hookLog \o <<"nitro:compiled", "nitro:dev:reload">>
    /\ UNCHANGED start

OnError(h) ==
    /\ log' = Append(log, <<"error", "Rollup error: ">>)
    /\ UNCHANGED <<start, compiled, devReload, hookVars>>

\* An open session h emits an event.
RollupEvent(h, code) ==
    /\ op = "_watch" /\ h \in open
    /\ nSess < MaxSessionEvents
    /\ nSess' = nSess + 1
    /\ errored' = (IF code = "ERROR" THEN errored \cup {h} ELSE errored)
    /\ nEnd' = (IF code = "END" THEN nEnd + 1 ELSE nEnd)
    /\ CASE code = "START" -> OnStart(h)
         [] code = "BUNDLE_START" -> OnBundleStart(h)
         [] code = "END" -> OnEnd(h)
         [] code = "ERROR" -> OnError(h)
    /\ UNCHANGED <<tplVars, typesVars, op, prepVars, buildVars, raised, wpc, debVars, bodyVars,
                   fsVars, closeState>>

\* The 'close' hook: rollupWatcher.close() then reloadWacher.close(); with
\* rollupWatcher still undefined the first call throws.
CloseHook ==
    /\ op = "_watch" /\ closeState = "registered"
    /\ IF rollupWatcher = 0
         THEN /\ closeState' = "threw"
              /\ UNCHANGED <<open, fsWatcher>>
         ELSE /\ open' = open \ {rollupWatcher}
              /\ fsWatcher' = "closed"
              /\ closeState' = "done"
    /\ UNCHANGED <<extraVars, op, prepVars, buildVars, sharedVars, wpc, debVars,
                   runs, rollupWatcher, nHandles, sessVars, nFs, nOther>>

(***************************************************************************)
(* writeTypes                                                              *)
(***************************************************************************)
\* A handler that is not referenced by a string, and an absent route.
NotString == [string |-> FALSE, stem |-> "", ext |-> ""]

NoRoute == ""

NoUnimport == [present |-> FALSE, text |-> <<>>]

NoFile == <<>>

\* Handler files as stem and extension; the extensions /\.[a-z]+$/ matches.
LowerExts == {"ts", "js"}

HandlerRefs ==
    {[string |-> TRUE, stem |-> "a", ext |-> "ts"],
     [string |-> TRUE, stem |-> "a", ext |-> "js"],
     NotString}

Routes == {"/x", "/y", NoRoute}

Middlewares == [handler : HandlerRefs, route : Routes]

\* The texts generateTypeDecarations may return.
UnimportTexts == {<<"d">>, <<" ", "d">>, <<"d", " ">>}

Unimports == {NoUnimport} \cup {[present |-> TRUE, text |-> t] : t \in UnimportTexts}

SeqsUpTo(S, n) == UNION {[1..k -> S] : k \in 0..n}

\* relative(join(buildDir, 'types'), handler)
RelativePath(h) == [stem |-> <<"../..", h.stem>>, ext |-> h.ext]

\* .replace(/\.[a-z]+$/, '')
StripExt(p) == IF p.ext \in LowerExts THEN p.stem ELSE <<p.stem, ".", p.ext>>

\* The type expression pushed for a handler.
TypeExpr(h) ==
    <<"Awaited<ReturnType<typeof import('", StripExt(RelativePath(h)), "').default>>">>

\* The test that skips a handler.
Skipped(mw) == ~mw.handler.string \/ mw.route = NoRoute

\* routeTypes[route] = routeTypes[route] || []; routeTypes[route].push(type)
\* on a map kept as the sequence of its entries in insertion order.
PushType(map, route, type) ==
    IF \E i \in 1..Len(map) : map[i][1] = route
      THEN [i \in 1..Len(map) |->
              IF map[i][1] = route THEN <<route, Append(map[i][2], type)>> ELSE map[i]]
      ELSE Append(map, <<route, <<type>> >>)

\* The loop over the middleware, from the map acc.
RECURSIVE BuildRouteTypes(_, _)
BuildRouteTypes(mws, acc) ==
    IF mws = <<>> THEN acc
    ELSE BuildRouteTypes(Tail(mws),
           IF Skipped(Head(mws)) THEN acc
           ELSE PushType(acc, Head(mws).route, TypeExpr(Head(mws).handler)))

\* String.prototype.trim on a sequence of characters.
RECURSIVE Trim(_)
Trim(t) ==
    IF t = <<>> THEN t
    ELSE IF Head(t) = " " THEN Trim(Tail(t))
    ELSE IF t[Len(t)] = " " THEN Trim(SubSeq(t, 1, Len(t) - 1))
    ELSE t

\* The lines of the declaration file.
Lines(map, auto) ==
    << <<"// Generated by nitro">>,
       <<"declare module 'nitropack' {">>,
       <<"  type Awaited<T> = T extends PromiseLike<infer U> ? Awaited<U> : T">>,
       <<"  interface InternalApi {">> >>
    \o [i \in 1..Len(map) |-> <<"    '", map[i][1], "': ", map[i][2]>>]
    \o << <<"  }">>, <<"}">> >>
    \o (IF auto.present THEN <<Trim(auto.text)>> ELSE <<>>)
    \o << <<"export {}">> >>

\* The map a call of writeTypes starts from, kept from the previous call.
InitialRouteTypesKept == routeTypes

\* The map a call of writeTypes starts from: const routeTypes = {}.
InitialRouteTypes == <<>>

\* writeTypes(nitro): builds the map, renders the lines and writes the file.
WriteTypes ==
    /\ op = "writeTypes"
    /\ nWrites < MaxTypeWrites
    /\ LET map == BuildRouteTypes(scannedHandlers \o handlers, InitialRouteTypes)
       IN /\ routeTypes' = map
          /\ typesFile' = Lines(map, unimport)
    /\ prevFile' = typesFile
    /\ nWrites' = nWrites + 1
    /\ UNCHANGED <<tplVars, op, prepVars, buildVars, sharedVars, hookVars, watchVars,
                   scannedHandlers, handlers, unimport>>

(***************************************************************************)
(* build: the document template, 'nitro:rollup:before', the dispatch        *)
(***************************************************************************)
\* No entry in nitro.vfs, no readable file.
Missing == "missing"

\* The states of a source of the template: none, empty, or the text t.
Sources(t) == {Missing, "", t}

\* What the handlers of 'nitro:document' can leave in the record.
TemplateContents == {"", "v", "d", "m"}

\* htmlTemplate.dst as build computes it from htmlTemplate.src.
DefaultDst == "views/document.template.mjs"

TemplateDsts == {DefaultDst, "views/other.mjs"}

NoModule == [dst |-> "", module |-> <<>>]

\* nitro.vfs[src] || await fse.readFile(src, 'utf-8').catch(() => '')
ReadContents ==
    IF vfs \notin {Missing, ""} THEN vfs
    ELSE IF disk = Missing THEN "" ELSE disk

\* 'export default ' + serializeTemplate(contents)
CompiledModule(contents) == <<"export default ", <<"serializeTemplate", contents>>>>

\* getRollupConfig, then the call of the 'nitro:rollup:before' hook.
CallRollupBefore ==
    /\ hookLog' = Append(hookLog, "nitro:rollup:before")
    /\ tpc' = "before"

\* build up to its first hook call: the template is read and, with
\* contents, 'nitro:document' is called, otherwise 'nitro:rollup:before'.
BuildTemplate ==
    /\ op = "build" /\ tpc = "start"
    /\ htmlTemplate' = [contents |-> ReadContents, dst |-> DefaultDst]
    /\ IF ReadContents # ""
         THEN /\ hookLog' = Append(hookLog, "nitro:document")
              /\ tpc' = "document"
         ELSE CallRollupBefore
    /\ UNCHANGED <<typesVars, compiledRunning, vfs, disk, dev, written, called, op,
                   prepVars, buildVars, sharedVars, watchVars>>

\* A handler of 'nitro:document' rewrites the record.
DocumentHandler(c, d) ==
    /\ op = "build" /\ tpc = "document"
    /\ htmlTemplate' = [contents |-> c, dst |-> d]
    /\ htmlTemplate' # htmlTemplate
    /\ UNCHANGED <<typesVars, hookVars, tpc, vfs, disk, dev, written, called, op,
                   prepVars, buildVars, sharedVars, watchVars>>

\* The awaited callHook('nitro:document') settles: writeFile is called, or
\* build rejects.
DocumentDone ==
    /\ op = "build" /\ tpc = "document"
    /\ \/ tpc' = "write" /\ UNCHANGED raised
       \/ \E e \in Errors : raised' = e /\ tpc' = "rejected"
    /\ UNCHANGED <<typesVars, hookVars, vfs, disk, dev, htmlTemplate, written, called,
                   op, prepVars, buildVars, log, compiled, devReload, watchVars>>

\* TemplateWritten writing the template as it was read.
TemplateWrittenAsRead ==
    /\ op = "build" /\ tpc = "write"
    /\ written' = [dst |-> DefaultDst, module |-> CompiledModule(ReadContents)]
    /\ CallRollupBefore
    /\ UNCHANGED <<typesVars, compiledRunning, vfs, disk, dev, htmlTemplate, called,
                   op, prepVars, buildVars, sharedVars, watchVars>>

\* writeFile(htmlTemplate.dst, compiled) settles; then getRollupConfig and
\* the call of 'nitro:rollup:before'.
TemplateWritten ==
    /\ op = "build" /\ tpc = "write"
    /\ \/ /\ written' = [dst |-> htmlTemplate.dst,
                          module |-> CompiledModule(htmlTemplate.contents)]
          /\ CallRollupBefore
          /\ UNCHANGED raised
       \/ \E e \in Errors :
            /\ raised' = e /\ tpc' = "rejected"
            /\ UNCHANGED <<written, hookLog>>
    /\ UNCHANGED <<typesVars, compiledRunning, vfs, disk, dev, htmlTemplate, called,
                   op, prepVars, buildVars, log, compiled, devReload, watchVars>>

\* The awaited callHook('nitro:rollup:before') settles: build calls _watch
\* in development mode and _build otherwise, or rejects.
RollupBeforeDone ==
    /\ op = "build" /\ tpc = "before"
    /\ \/ /\ called' = (IF dev THEN "_watch" ELSE "_build")
          /\ tpc' = "dispatched"
          /\ UNCHANGED raised
       \/ \E e \in Errors :
            raised' = e /\ tpc' = "rejected" /\ UNCHANGED called
    /\ UNCHANGED <<typesVars, hookVars, vfs, disk, dev, htmlTemplate, written,
                   op, prepVars, buildVars, log, compiled, devReload, watchVars>>

(***************************************************************************)
(* Specification                                                           *)
(***************************************************************************)
Init ==
    /\ op \in {"prepare", "build", "_build", "_watch", "writeTypes"}
    /\ outputDir \in (IF op = "prepare" THEN Paths ELSE {<<"/">>})
    /\ publicDir \in (IF op = "prepare" THEN Paths ELSE {<<"/">>})
    /\ serverDir \in (IF op = "prepare" THEN Paths ELSE {<<"/">>})
    /\ ppc = "root"
    /\ cleared = <<>>
    /\ logLevel \in (IF op = "_build" THEN 0..MaxLogLevel ELSE {0})
    /\ commands \in (IF op = "_build"
                       THEN [preview : BOOLEAN, deploy : BOOLEAN]
                       ELSE {[preview |-> FALSE, deploy |-> FALSE]})
    /\ bpc = "scan"
    /\ rollupError = NoError
    /\ raised = NoError
    /\ bundleWritten = FALSE
    /\ manifest = FALSE
    /\ treePrinted = FALSE
    /\ steps = <<>>
    /\ log = <<>>
    /\ compiled = 0
    /\ devReload = 0
    /\ hookLog = <<>>
    /\ compiledRunning = 0
    /\ wpc = "start"
    /\ rollupWatcher = 0
    /\ open = {}
    /\ nHandles = 0
    /\ runs = <<>>
    /\ timeout = FALSE
    /\ currentPromise = FALSE
    /\ trailingArgs = FALSE
    /\ windowCalls = 0
    /\ runCalls = 0
    /\ lastStart = <<"none", 0>>
    /\ start = {}
    /\ errored = {}
    /\ nSess = 0
    /\ nEnd = 0
    /\ fsWatcher = "none"
    /\ nFs = 0
    /\ nOther = 0
    /\ closeState = "unregistered"
    /\ scannedHandlers \in (IF op = "writeTypes"
                              THEN SeqsUpTo(Middlewares, MaxHandlers) ELSE {<<>>})
    /\ handlers \in (IF op = "writeTypes"
                       THEN {<<>>} \cup {<<mw>> : mw \in Middlewares} ELSE {<<>>})
    /\ unimport \in (IF op = "writeTypes"
                       THEN Unimports ELSE {NoUnimport})
    /\ routeTypes = <<>>
    /\ typesFile = NoFile
    /\ prevFile = NoFile
    /\ nWrites = 0
    /\ tpc = "start"
    /\ vfs \in (IF op = "build" THEN Sources("v") ELSE {Missing})
    /\ disk \in (IF op = "build" THEN Sources("d") ELSE {Missing})
    /\ dev \in (IF op = "build" THEN BOOLEAN ELSE {FALSE})
    /\ htmlTemplate = [contents |-> "", dst |-> ""]
    /\ written = NoModule
    /\ called = "none"

Next ==
    \/ PrepareRoot
    \/ PreparePublic
    \/ PrepareServer
    \/ BuildScan
    \/ BuildWriteTypes
    \/ BuildRollup
    \/ BuildWrite
    \/ BuildManifest
    \/ BuildTree
    \/ BuildCompiled
    \/ CompiledHandlersDone
    \/ WatchStart
    \/ TimerFire
    \/ \E i \in 1..Len(runs) : ReloadClosed(i)
    \/ \E i \in 1..Len(runs) : ReloadScanned(i)
    \/ \E i \in 1..Len(runs) : ReloadTypesWritten(i)
    \/ \E event \in FsEventNames : FsEvent(event)
    \/ \E h \in open, code \in SessionEventCodes : RollupEvent(h, code)
    \/ CloseHook
    \/ WriteTypes
    \/ BuildTemplate
    \/ \E c \in TemplateContents, d \in TemplateDsts : DocumentHandler(c, d)
    \/ DocumentDone
    \/ TemplateWritten
    \/ RollupBeforeDone

Spec == Init /\ [][Next]_vars

\* The event loop runs an armed timer and resumes a suspended body once the
\* awaited operation settles; the collaborators are taken to settle.
Fairness ==
    /\ WF_vars(TimerFire)
    /\ WF_vars(\E i \in 1..Len(runs) : ReloadClosed(i))
    /\ WF_vars(\E i \in 1..Len(runs) : ReloadScanned(i))
    /\ WF_vars(\E i \in 1..Len(runs) : ReloadTypesWritten(i))

FairSpec == Spec /\ Fairness

(***************************************************************************)
(* Properties                                                              *)
(***************************************************************************)
Settled(i) == runs[i] \in {"done", "failed"}

\* The step settles an execution of the reload body.
SettleStep == \E i \in InProgress : runs'[i] \in {"done", "failed"}

\* The step starts an execution of the reload body.
StartStep == Len(runs') = Len(runs) + 1

\* The step delivers a structural filesystem-watcher event.
StructuralStep == nFs' = nFs + 1 /\ nOther' = nOther

\* The step delivers a filesystem-watcher event of another kind.
OtherStep == nFs' = nFs + 1 /\ nOther' = nOther + 1


\* C1: in live mode at most one execution of the reload body is between
\* its start and its completion at any instant.
C1_SingleFlight == Cardinality(InProgress) <= 1

\* A second execution runs after the first has settled, with a request
\* received while it runs.
C1_Witness ==
    /\ Len(runs) >= 2
    /\ Settled(1)
    /\ InProgress = {2}
    /\ runCalls >= 1

\* C2: the calls of one debounce window, received while no reload runs,
\* start no execution while the window is open and exactly one execution
\* when the timer fires, whatever their number; and the window does end.
C2_BurstOneReload ==
    /\ [][ /\ (timeout => InProgress = {} /\ windowCalls >= 1)
           /\ (timeout /\ timeout' => Len(runs') = Len(runs))
           /\ (timeout /\ ~timeout' =>
                 /\ Len(runs') = Len(runs) + 1
                 /\ lastStart' = <<"timer", windowCalls>>
                 /\ windowCalls' = 0)
           /\ (windowCalls' > windowCalls => timeout' /\ Len(runs') = Len(runs))
         ]_vars
    /\ timeout ~> ~timeout

\* A window of three calls (the startup call and two filesystem events) has
\* produced one execution.
C2_Witness ==
    /\ lastStart = <<"timer", 3>>
    /\ Len(runs) = 1 /\ Settled(1)
    /\ ~timeout /\ ~currentPromise

\* C3: requests received while a reload runs start nothing until it
\* settles; when it settles exactly one trailing execution starts, however
\* many requests there were, and none starts when there were none; and
\* pending requests do get served, which happens only at a settle.
C3_TrailingReload ==
    /\ [][ /\ (runCalls' > runCalls => Len(runs') = Len(runs) /\ InProgress # {})
           /\ (StructuralStep /\ InProgress # {} =>
                 runCalls' = runCalls + 1 /\ trailingArgs' /\ ~timeout')
           /\ (runCalls >= 1 /\ runCalls' = 0 => SettleStep)
           /\ (SettleStep =>
                 IF runCalls >= 1
                   THEN /\ Len(runs') = Len(runs) + 1
                        /\ runs'[Len(runs')] \in {"close", "scan"}
                        /\ lastStart' = <<"trailing", runCalls>>
                        /\ runCalls' = 0
                   ELSE Len(runs') = Len(runs))
         ]_vars
    /\ (runCalls >= 1) ~> (runCalls = 0)

\* Two requests arrived during the first execution and one trailing
\* execution has started and settled.
C3_Witness ==
    /\ lastStart = <<"trailing", 2>>
    /\ Len(runs) = 2 /\ Settled(1) /\ Settled(2)
    /\ ~timeout /\ ~currentPromise

\* C4: at most one bundler-watch handle is open in every reachable state of
\* live mode.
C4_OneOpenHandle == Cardinality(open) <= 1

\* A second session is open after a second reload cycle.
C4_Witness ==
    /\ nHandles >= 2
    /\ open = {nHandles}
    /\ Len(runs) >= 2

\* C5: a filesystem event that is not structural leaves the reload trigger
\* unchanged, and a request for a reload comes only from a structural event
\* (or from the startup call).
C5_OnlyStructuralEvents ==
    [][ /\ (OtherStep =>
              UNCHANGED <<timeout, currentPromise, trailingArgs, windowCalls,
                          runCalls, runs>>)
        /\ (windowCalls' > windowCalls \/ runCalls' > runCalls =>
              \/ wpc = "start"
              \/ StructuralStep)
        /\ (StructuralStep =>
              windowCalls' > windowCalls \/ runCalls' > runCalls)
      ]_vars

\* A 'change' event was delivered while a reload was running and recorded
\* no trailing call.
C5_Witness ==
    /\ nOther = 1
    /\ nFs = 1
    /\ InProgress # {}
    /\ ~trailingArgs /\ ~timeout

\* C6: when the bundler's build rejects in a one-shot build, the error is
\* logged with the prefix and the same error is raised to the caller; the
\* bundle is not written, no manifest is written and 'compiled' is not fired.
C6_RollupRejection ==
    rollupError # NoError =>
        /\ bpc = "rejected"
        /\ raised = rollupError
        /\ log # <<>>
        /\ log[Len(log)] = <<"error", "Rollup error: ", rollupError>>
        /\ ~bundleWritten
        /\ ~manifest
        /\ compiled = 0

\* The bundler has rejected after a successful scan and type write.
C6_Witness ==
    /\ op = "_build"
    /\ rollupError = "E2"
    /\ raised = "E2"
    /\ bpc = "rejected"

\* C7: whenever the 'close' event fires after the handler is registered,
\* the handler completes without error and closes the filesystem watcher
\* and the bundler-watch handle active at that moment.
C7_CloseHandlerCompletes ==
    closeState \in {"done", "threw"} =>
        /\ closeState = "done"
        /\ fsWatcher = "closed"

\* C8: once 'close' has been handled no bundler-watch handle is open, also
\* when a reload was in flight or pending at that moment.
C8_ClosedTerminal ==
    closeState = "done" => open = {}

\* The step logs a bundle error of the watch session.
ErrorLogged == op = "_watch" /\ log' = Append(log, <<"error", "Rollup error: ">>)

\* The step handles a bundle-end event of the watch session.
EndLogged ==
    /\ op = "_watch"
    /\ Len(log') = Len(log) + 1
    /\ log'[Len(log')][1] = "success"

\* C9: a bundle-error session event is logged and nothing else: handles,
\* filesystem watcher, hooks and reload trigger are untouched; a bundle-end
\* event of a session that has reported an error fires 'compiled' and
\* 'dev:reload'.
C9_ErrorOnlyLogged ==
    [][ /\ (nSess' = nSess + 1 /\ errored' # errored => ErrorLogged)
        /\ (ErrorLogged =>
              UNCHANGED <<open, rollupWatcher, nHandles, fsWatcher, closeState,
                          compiled, devReload, runs, timeout, currentPromise,
                          trailingArgs, windowCalls, runCalls>>)
        /\ (EndLogged /\ open \subseteq errored =>
              /\ compiled' = compiled + 1
              /\ devReload' = devReload + 1
              /\ UNCHANGED open)
      ]_vars

\* A session reported an error, stayed open, and its later bundle end fired
\* both hooks.
C9_Witness ==
    /\ open # {} /\ open \subseteq errored
    /\ fsWatcher = "open"
    /\ Len(log) = 2
    /\ log[1] = <<"error", "Rollup error: ">>
    /\ log[2][1] = "success"
    /\ compiled = 1 /\ devReload = 1

\* C10: with the public and the server output directory nested under the
\* output root, prepare clears the output root once and nothing else.
C10_NestedClearedOnce ==
    (op = "prepare" /\ IsNested(publicDir, outputDir) /\ IsNested(serverDir, outputDir)) =>
        /\ (ppc = "root" => cleared = <<>>)
        /\ (ppc # "root" => cleared = <<outputDir>>)

\* prepare has finished on an output root with both directories strictly
\* inside it.
C10_Witness ==
    /\ op = "prepare" /\ ppc = "done"
    /\ outputDir # <<"/">>
    /\ publicDir # outputDir /\ IsNested(publicDir, outputDir)
    /\ serverDir # outputDir /\ IsNested(serverDir, outputDir)
    /\ cleared = <<outputDir>>

\* C11: with the public and the server output directory not located inside
\* the output root, prepare clears the output root, the public output
\* directory and the server output directory.
C11_NotNestedAllCleared ==
    (/\ op = "prepare" /\ ppc = "done"
     /\ ~IsNested(publicDir, outputDir)
     /\ ~IsNested(serverDir, outputDir)) =>
        cleared = <<outputDir, publicDir, serverDir>>

\* C12: a second call of writeTypes with the same scanned handlers,
\* configured handlers and auto-import text writes the same lines to the
\* same file: the file is unchanged by it.
C12_WriteTypesIdempotent ==
    nWrites >= 2 => typesFile = prevFile

\* writeTypes has run twice on a configuration with two types for one route
\* and an auto-import text that needs trimming.
C12_Witness ==
    /\ nWrites = 2
    /\ unimport.text = <<" ", "d">>
    /\ Len(routeTypes) = 1
    /\ Len(routeTypes[1][2]) = 2
    /\ typesFile[Len(typesFile) - 1] = <<"d">>

\* The first occurrences of the elements of a sequence, in order.
RECURSIVE FirstOccurrences(_)
FirstOccurrences(q) ==
    IF q = <<>> THEN <<>>
    ELSE LET rest == FirstOccurrences(SubSeq(q, 1, Len(q) - 1))
             last == q[Len(q)]
         IN IF \E i \in 1..Len(rest) : rest[i] = last THEN rest ELSE Append(rest, last)

\* The handlers with a string reference and a route, scanned ones first.
Eligible ==
    SelectSeq(scannedHandlers \o handlers,
              LAMBDA mw : mw.handler.string /\ mw.route # NoRoute)

\* The type expressions of the eligible handlers of a route, each once, in
\* first-encounter order.
TypeSetOf(route) ==
    LET own == SelectSeq(Eligible, LAMBDA mw : mw.route = route)
    IN FirstOccurrences([i \in 1..Len(own) |-> TypeExpr(own[i].handler)])

\* C19: the route map of writeTypes lists the routes of the eligible
\* handlers in first-encounter order, handlers without a string reference
\* or a route contribute nothing, and the entry of a route holds each type
\* expression once, in first-encounter order.
C19_RouteTypeMap ==
    nWrites >= 1 =>
        LET routes == FirstOccurrences([i \in 1..Len(Eligible) |-> Eligible[i].route])
        IN routeTypes = [i \in 1..Len(routes) |-> <<routes[i], TypeSetOf(routes[i])>>]

\* C13 as stated: the filesystem watcher is subscribed only once the
\* startup reload cycle has completed.
C13_WatcherAfterStartup ==
    fsWatcher = "open" => (runs # <<>> /\ Settled(1))

\* C13 as amended: _watch subscribes the filesystem watcher and requests
\* the first reload unconditionally in one step, before that reload runs;
\* until the first cycle has settled _watch stays suspended and no other
\* cycle starts, whatever events are delivered; _watch returns or rejects
\* with the outcome of the first cycle.
C13_StartupReload ==
    /\ (wpc # "start" => fsWatcher # "none" /\ closeState # "unregistered")
    /\ (wpc = "awaitReload" =>
          \/ timeout /\ runs = <<>>
          \/ Len(runs) = 1 /\ InProgress = {1})
    /\ (wpc = "returned" => runs # <<>> /\ runs[1] = "done")
    /\ (wpc = "rejected" => runs # <<>> /\ runs[1] = "failed" /\ raised \in Errors)

\* A structural event was delivered before the startup reload ran and was
\* served by the one startup cycle, after which _watch returned.
C13_Witness ==
    /\ wpc = "returned"
    /\ lastStart = <<"timer", 2>>
    /\ Len(runs) = 1
    /\ nFs = 1 /\ nOther = 0

(***************************************************************************)
\* The steps of _build in their order.
BuildOrder == <<"scan", "writeTypes", "rollup", "write", "manifest", "compiled">>

\* The number of steps completed at each position of _build that has not
\* failed.
StepsAt(pc) ==
    CASE pc = "scan" -> 0
      [] pc = "writeTypes" -> 1
      [] pc = "rollup" -> 2
      [] pc = "write" -> 3
      [] pc = "manifest" -> 4
      [] pc = "tree" -> 5
      [] OTHER -> 6

\* C14: the one-shot build completes its steps in the order scan, write
\* types, bundler build, bundler write, persist manifest, fire "compiled",
\* each step only after the previous one succeeded; after a failure no later
\* step runs, so the bundle is written only after the bundler built, the
\* manifest only after the bundle was written, and "compiled" is fired only
\* with the manifest persisted.
C14_BuildOrder ==
    /\ Len(steps) <= Len(BuildOrder)
    /\ steps = SubSeq(BuildOrder, 1, Len(steps))
    /\ (op = "_build" /\ bpc # "rejected" => Len(steps) = StepsAt(bpc))
    /\ (bpc = "rejected" => raised \in Errors /\ Len(steps) <= 4 /\ compiled = 0)
    /\ (bundleWritten <=> Len(steps) >= 4)
    /\ (manifest <=> Len(steps) >= 5)
    /\ (op = "_build" => (compiled = 1 <=> Len(steps) = 6) /\ compiled <= 1)
    /\ (rollupError # NoError => Len(steps) = 2 /\ bpc = "rejected")

\* A build that completed every step and returned.
C14_Witness ==
    /\ op = "_build" /\ bpc = "returned"
    /\ steps = BuildOrder
    /\ manifest /\ bundleWritten /\ compiled = 1

(***************************************************************************)
\* The positions an execution of the reload body can move to from each
\* position.
BodySuccessors(pos) ==
    CASE pos = "close" -> {"scan"}
      [] pos = "scan" -> {"writeTypes", "failed"}
      [] pos = "writeTypes" -> {"done", "failed"}
      [] OTHER -> {}

\* C15: every reload cycle closes the previous bundler-watch handle if there
\* is one and waits for the close, then re-runs the scanner, then starts a
\* new bundler-watch session, then re-runs the type declaration writer; a
\* session is started only by the step that ends a successful scan, of a
\* cycle that is past its close, with no other handle open.
C15_ReloadOrder ==
    [][ /\ \A i \in 1..Len(runs) :
              runs'[i] # runs[i] => runs'[i] \in BodySuccessors(runs[i])
        /\ (StartStep =>
              /\ runs'[Len(runs')] = (IF rollupWatcher # 0 THEN "close" ELSE "scan")
              /\ rollupWatcher \notin open')
        /\ (nHandles' # nHandles =>
              /\ nHandles' = nHandles + 1
              /\ open = {}
              /\ open' = {nHandles'}
              /\ rollupWatcher' = nHandles'
              /\ \E i \in 1..Len(runs) :
                    /\ runs[i] = "scan" /\ runs'[i] = "writeTypes"
                    /\ InProgress = {i})
        /\ (\A i \in 1..Len(runs) :
              runs[i] = "scan" /\ runs'[i] = "writeTypes" => nHandles' = nHandles + 1)
      ]_vars

\* A second cycle that closed the session of the first, scanned and started
\* its own session.
C15_Witness ==
    /\ Len(runs) = 2 /\ runs[1] = "done" /\ runs[2] = "writeTypes"
    /\ nHandles = 2 /\ rollupWatcher = 2 /\ open = {2}

(***************************************************************************)
\* C16: in watch mode every bundle-end session event calls 'nitro:compiled'
\* once and then 'nitro:dev:reload' once, and no other session event calls a
\* hook: the hooks called are one compiled-then-reload pair per END event
\* delivered, and a BUNDLE_START event changes only the start timestamp.
C16_EndFiresCompiledThenReload ==
    /\ [](op = "_watch" =>
            /\ compiled = nEnd /\ devReload = nEnd
            /\ Len(hookLog) = 2 * nEnd
            /\ \A k \in 1..Len(hookLog) :
                  hookLog[k] = (IF k % 2 = 1 THEN "nitro:compiled"
                                             ELSE "nitro:dev:reload"))
    /\ [][ /\ (nSess' = nSess + 1 /\ nEnd' = nEnd =>
                 UNCHANGED <<hookLog, compiled, devReload, compiledRunning>>)
          /\ (start' # start => UNCHANGED <<log, hookVars, compiled, devReload>>)
        ]_vars

\* A BUNDLE_START and an END event were delivered, and one pair of hooks was
\* called.
C16_Witness ==
    /\ op = "_watch" /\ nSess = 2 /\ nEnd = 1 /\ start # {}
    /\ hookLog = <<"nitro:compiled", "nitro:dev:reload">>

(***************************************************************************)
\* C17: hook emission is fire-and-await-all: the emitter takes its next step
\* only when every handler of the hook has completed. _build returns only
\* with the handlers of 'nitro:compiled' completed, and in watch mode
\* 'nitro:dev:reload' is called only with the handlers of 'nitro:compiled'
\* completed.
C17_FireAndAwaitAll ==
    /\ [](op = "_build" /\ bpc = "returned" => compiledRunning = 0)
    /\ [][devReload' # devReload => compiledRunning' = 0]_vars

(***************************************************************************)
\* The number of calls of hook name recorded in hookLog.
Fired(name) == Cardinality({k \in 1..Len(hookLog) : hookLog[k] = name})

\* C18: with a template that is absent or empty build calls no
\* 'nitro:document', writes nothing and has raised nothing when it calls
\* 'nitro:rollup:before'; with a non-empty template it calls 'nitro:document'
\* once, writes only after the handlers have completed, and the module it
\* writes has the contents and the destination the handlers left. In both
\* cases 'nitro:rollup:before' is called afterwards and has completed before
\* _build or _watch is called.
C18_DocumentTemplate ==
    /\ [](op = "build" /\ tpc # "start" =>
            /\ (ReadContents = "" =>
                  /\ Fired("nitro:document") = 0
                  /\ written = NoModule
                  /\ tpc \in {"before", "dispatched", "rejected"}
                  /\ hookLog = <<"nitro:rollup:before">>)
            /\ (ReadContents # "" =>
                  /\ Fired("nitro:document") = 1
                  /\ hookLog[1] = "nitro:document"
                  /\ (written = NoModule <=>
                        \/ tpc \in {"document", "write"}
                        \/ tpc = "rejected" /\ Len(hookLog) = 1)
                  /\ (written # NoModule =>
                        /\ written.dst = htmlTemplate.dst
                        /\ written.module = CompiledModule(htmlTemplate.contents)))
            /\ Fired("nitro:rollup:before") <= 1
            /\ (tpc \in {"before", "dispatched"} =>
                  /\ hookLog[Len(hookLog)] = "nitro:rollup:before"
                  /\ raised = NoError)
            /\ (called # "none" <=> tpc = "dispatched")
            /\ (called # "none" => called = (IF dev THEN "_watch" ELSE "_build")))
    /\ [][ /\ (op = "build" /\ written' # written => tpc = "write")
          /\ (op = "build" /\ tpc # "start" /\ htmlTemplate' # htmlTemplate =>
                 tpc = "document" /\ tpc' = "document")
        ]_vars

\* A template from the overlay whose contents and destination the handlers
\* rewrote, written and dispatched to _watch.
C18_Witness ==
    /\ op = "build" /\ tpc = "dispatched" /\ called = "_watch"
    /\ vfs = "v"
    /\ written = [dst |-> "views/other.mjs", module |-> CompiledModule("m")]
    /\ hookLog = <<"nitro:document", "nitro:rollup:before">>

(***************************************************************************)
\* Some execution of the reload body has failed.
HasFailed == \E i \in 1..Len(runs) : runs[i] = "failed"

\* The step settles an execution of the reload body as failed.
FailStep == \E i \in InProgress : runs'[i] = "failed"

\* C20: a failed reload cycle does not wedge the coordinator. The step in
\* which a cycle fails either starts the trailing cycle for the requests
\* that arrived during it or leaves the trigger idle; after a failure a
\* request still arms the timer or is recorded as the trailing call, the
\* armed timer still leads to a cycle, and a cycle whose scan succeeds opens
\* a fresh session as the only open handle.
C20_FailureDoesNotWedge ==
    /\ [](Cardinality(open) <= 1 /\ Cardinality(InProgress) <= 1)
    /\ [](HasFailed /\ InProgress = {} => ~currentPromise /\ ~trailingArgs)
    /\ [][ /\ (FailStep =>
                 IF runCalls >= 1
                   THEN StartStep /\ lastStart' = <<"trailing", runCalls>>
                   ELSE ~currentPromise' /\ ~trailingArgs' /\ InProgress' = {})
          /\ (HasFailed /\ StructuralStep /\ InProgress = {} => timeout')
          /\ (HasFailed /\ StructuralStep /\ InProgress # {} =>
                 trailingArgs' /\ runCalls' = runCalls + 1)
          /\ (HasFailed /\ nHandles' # nHandles =>
                 open' = {nHandles'} /\ rollupWatcher' = nHandles')
        ]_vars
    /\ ((HasFailed /\ timeout) ~> (~timeout /\ lastStart[1] = "timer"))

\* The second cycle closed the session of the first and failed in the
\* scan; the request that arrived during it got its trailing cycle, which
\* opened a fresh session.
C20_Witness ==
    /\ Len(runs) = 3
    /\ runs[1] = "done" /\ runs[2] = "failed" /\ runs[3] = "done"
    /\ lastStart = <<"trailing", 1>>
    /\ nHandles = 2 /\ rollupWatcher = 2 /\ open = {2}
    /\ ~currentPromise /\ ~timeout

====
